---- MODULE Spec2Model ----
(***************************************************************************)
(* A model of the face identity engine of image_face_recognizer:           *)
(*   face_database.py  the identity store (register / update / delete /    *)
(*                     find_match, Hamming distance)                       *)
(*   face_utils.py     fingerprinting, match_faces, calcular_iou,          *)
(*                     hamming_distance, track_faces                       *)
(*   face_scanner.py   LiveFaceScanner / VideoFaceScanner orchestration    *)
(*                                                                         *)
(* Python values are modelled as follows.                                  *)
(*   str fingerprint    a sequence of one-character strings                *)
(*   float('inf')       Inf, larger than every distance and threshold      *)
(*   None / missing key the string None (names) or a presence flag         *)
(*   float similarity   an exact rational <<numerator, denominator>>       *)
(*   dict               a sequence of entries in insertion order           *)
(***************************************************************************)
EXTENDS Integers, Sequences, FiniteSets, TLC

VARIABLES
    hash_size,          \* FaceScanner.hash_size
    db,                 \* rows of table persons, in rowid order
    files,              \* images_cache_dir: file name -> stored image
    call,               \* the last operation: its arguments and its result
    pre,                \* the store as it was before the last operation
    tracker,            \* LiveFaceScanner.tracker: last_id and faces
    detected_persons,   \* LiveFaceScanner.detected_persons
    frame,              \* the detections of the last processed frame, as tracked
    preTracker,         \* the tracker as it was before the last frame
    seen_ids,           \* track identifiers used since the last reset
    fed,                \* detections fed to the tracker since the last reset
    folded,             \* [name, similarity] of every track folded into
                        \* detected_persons since the last reset
    fresh,              \* a scanner constructed at the last reset and given
                        \* the frames processed since
    lost,               \* the tracks dropped from the table since the last
                        \* reset, as they were in their last frame
    window,             \* FaceRecognitionWindow: whether scanner is set,
                        \* is_running and detected_persons
    stats               \* ImprovedDetector.stats of a detector that is called
                        \* directly; the scanner specifications start from the
                        \* detections the detector returned

vars == <<hash_size, db, files, call, pre, tracker, detected_persons, frame,
          preTracker, seen_ids, fed, folded, fresh, lost, window, stats>>

(***************************************************************************)
(* Bounds of the model.                                                    *)
(***************************************************************************)
MaxHashSize == 5        \* hash sizes 2..MaxHashSize are explored
MaxRows == 2            \* rows of a pre-populated store (SpecMatch)
MaxDets == 3            \* detections in one frame
MaxSessionDets == 4     \* detections fed to one tracker session
MaxFpLen == 2           \* digits of a fingerprint given to a distance (SpecPure)
MaxSide == 2            \* width and height of a box given to calcular_iou (SpecPure)
MaxBoxes == 2           \* raw boxes the network finds in one image (SpecDetector)
MaxTotal == 4           \* raw boxes counted between two calls of reset_stats

HashSizes == 2..MaxHashSize

(***************************************************************************)
(* Python values.                                                          *)
(***************************************************************************)
None == "<None>"
Inf == 1000000

Min(a, b) == IF a <= b THEN a ELSE b
Max(a, b) == IF a >= b THEN a ELSE b

\* A float that is a ratio of two integers: <<n, d>> with d > 0.
Rat(n, d) == <<n, d>>
RatGT(a, b) == a[1] * b[2] > b[1] * a[2]
RatEQ(a, b) == a[1] * b[2] = b[1] * a[2]
Zero == Rat(0, 1)

Truthy(s) == s # None /\ s # ""

(***************************************************************************)
(* Hexadecimal digits and the two Hamming distances.                       *)
(***************************************************************************)
HexChars == <<"0", "1", "2", "3", "4", "5", "6", "7",
              "8", "9", "a", "b", "c", "d", "e", "f">>

\* The value of each hexadecimal digit: HexTable[HexChars[k]] = k - 1.
HexTable ==
    "0" :> 0 @@ "1" :> 1 @@ "2" :> 2 @@ "3" :> 3 @@ "4" :> 4 @@ "5" :> 5 @@
    "6" :> 6 @@ "7" :> 7 @@ "8" :> 8 @@ "9" :> 9 @@ "a" :> 10 @@ "b" :> 11 @@
    "c" :> 12 @@ "d" :> 13 @@ "e" :> 14 @@ "f" :> 15

IsHex(c) == c \in DOMAIN HexTable

\* int(c, 16)
HexVal(c) == HexTable[c]

\* bin(v1 ^ v2).count('1') for two 4-bit values
XorBits(v1, v2) ==
    ((v1 + v2) % 2) + (((v1 \div 2) + (v2 \div 2)) % 2)
    + (((v1 \div 4) + (v2 \div 4)) % 2) + (((v1 \div 8) + (v2 \div 8)) % 2)

\* One step of the loop of FaceDatabase._hamming_distance: a character that is
\* no hexadecimal digit counts as the value 0.
DbDigitDistance(c1, c2) ==
    IF c1 = c2 THEN 0
    ELSE XorBits(IF IsHex(c1) THEN HexVal(c1) ELSE 0,
                 IF IsHex(c2) THEN HexVal(c2) ELSE 0)

RECURSIVE DbSumFrom(_, _, _)
DbSumFrom(hash1, hash2, i) ==
    IF i > Len(hash1) THEN 0
    ELSE DbDigitDistance(hash1[i], hash2[i]) + DbSumFrom(hash1, hash2, i + 1)

\* _hamming_distance without the comparison of the lengths: zip stops at the
\* end of the shorter string.
db_hamming_distance_zip(hash1, hash2) ==
    LET n == Min(Len(hash1), Len(hash2))
    IN DbSumFrom(SubSeq(hash1, 1, n), SubSeq(hash2, 1, n), 1)

\* FaceDatabase._hamming_distance
db_hamming_distance(hash1, hash2) ==
    IF Len(hash1) # Len(hash2) THEN Inf
    ELSE DbSumFrom(hash1, hash2, 1)

\* DigitDistance catching the ValueError of the first character only.
DigitDistance_first_only(c1, c2) ==
    IF c1 = c2 THEN 0
    ELSE IF ~IsHex(c1) THEN 4
    ELSE XorBits(HexVal(c1), IF IsHex(c2) THEN HexVal(c2) ELSE 0)

\* One step of the loop of face_utils.hamming_distance: int(c, 16) raising
\* ValueError adds 4.
DigitDistance(c1, c2) ==
    IF c1 = c2 THEN 0
    ELSE IF IsHex(c1) /\ IsHex(c2) THEN XorBits(HexVal(c1), HexVal(c2))
    ELSE 4

RECURSIVE SumFrom(_, _, _)
SumFrom(hash1, hash2, i) ==
    IF i > Len(hash1) THEN 0
    ELSE DigitDistance(hash1[i], hash2[i]) + SumFrom(hash1, hash2, i + 1)

\* face_utils.hamming_distance
hamming_distance(hash1, hash2) ==
    IF Len(hash1) = 0 \/ Len(hash2) = 0 \/ Len(hash1) # Len(hash2) THEN Inf
    ELSE SumFrom(hash1, hash2, 1)

(***************************************************************************)
(* Images and fingerprints.  An image is a face (id) under a transform.    *)
(* imagehash is a library: a hash of size hash_size prints as              *)
(* ceil(hash_size^2 / 4) hexadecimal digits, fixed by the image and the    *)
(* algorithm.                                                              *)
(***************************************************************************)
FaceIds == 0..3
Image(id, xf) == [id |-> id, xf |-> xf]
Faces == {Image(id, "none") : id \in FaceIds}
NoFile == Image(-1, "none")

\* cv2.flip(img, 1) / Image.FLIP_LEFT_RIGHT, and rotate_image(img, angle)
flip(img) == Image(img.id, IF img.xf = "none" THEN "flip" ELSE "flip+" \o img.xf)
rotate_image(img, angle) == Image(img.id, IF angle = 5 THEN "rot5" ELSE "rot_neg5")

HexLen(hs) == (hs * hs + 3) \div 4

\* The digit i of the hash of img under one algorithm.
HashDigit(algo, img, i, n) ==
    IF algo = "phash" /\ i = n /\ img.xf # "none"
    THEN (IF img.xf = "flip" THEN "8" ELSE IF img.xf = "rot5" THEN "4" ELSE "2")
    ELSE CASE img.id = 0 -> "0"
           [] img.id = 1 -> IF algo = "dhash" /\ i = 1 THEN "f"
                            ELSE IF algo = "dhash" /\ i = 2 THEN "1" ELSE "0"
           [] img.id = 2 -> IF i <= 7 /\ (algo # "dhash" \/ i >= 3) THEN "f" ELSE "0"
           [] OTHER -> "f"

\* str(imagehash.<algo>(img, hash_size))
ImageHash(algo, img, hs) == [i \in 1..HexLen(hs) |-> HashDigit(algo, img, i, HexLen(hs))]

\* face_utils.hash_image_multi: dhash, phash and average_hash
hash_image_multi(img, hs) ==
    ImageHash("dhash", img, hs) \o ImageHash("phash", img, hs) \o ImageHash("ahash", img, hs)

\* FaceDatabase._compute_hash: dhash and phash
compute_hash(img, hs) ==
    ImageHash("dhash", img, hs) \o ImageHash("phash", img, hs)

\* The four fingerprints hash_faces attaches to a detection with a crop.
hash_faces(face, hs) ==
    [hash          |-> hash_image_multi(face, hs),
     hash_flipped  |-> hash_image_multi(flip(face), hs),
     hash_rot5     |-> hash_image_multi(rotate_image(face, 5), hs),
     hash_rot_neg5 |-> hash_image_multi(rotate_image(face, -5), hs)]

(***************************************************************************)
(* The identity store (face_database.py).  A row is                        *)
(*   [name, hash_normal, hash_flipped, image_path].                        *)
(***************************************************************************)
Names == {"Alice", "alice", "Bob"}

\* f"{name.replace(' ', '_').lower()}.jpg" on the names of the model
image_filename(name) ==
    CASE name = "Alice" -> "alice.jpg"
      [] name = "alice" -> "alice.jpg"
      [] name = "Bob"   -> "bob.jpg"
      [] OTHER        -> name \o ".jpg"

Paths == {image_filename(n) : n \in Names}

HasRow(rows, name) == \E i \in 1..Len(rows) : rows[i].name = name
RowIndex(rows, name) == CHOOSE i \in 1..Len(rows) : rows[i].name = name

\* The state of the store and the value returned.
Outcome(ret, rows, fs) == [ret |-> ret, db |-> rows, files |-> fs]

\* register_person without the check for an existing name: the row is replaced.
register_person_upsert(rows, fs, name, face_image, hs) ==
    LET row == [name |-> name, hash_normal |-> compute_hash(face_image, hs),
                hash_flipped |-> compute_hash(flip(face_image), hs),
                image_path |-> image_filename(name)]
    IN [ret |-> ~HasRow(rows, name),
        db |-> IF HasRow(rows, name)
               THEN [rows EXCEPT ![RowIndex(rows, name)] = row] ELSE Append(rows, row),
        files |-> [fs EXCEPT ![image_filename(name)] = face_image]]

\* FaceDatabase.register_person
register_person(rows, fs, name, face_image, hs) ==
    IF HasRow(rows, name) THEN Outcome(FALSE, rows, fs)
    ELSE LET hash_normal  == compute_hash(face_image, hs)
             hash_flipped == compute_hash(flip(face_image), hs)
             image_path   == image_filename(name)
         IN Outcome(TRUE,
                    Append(rows, [name |-> name, hash_normal |-> hash_normal,
                                  hash_flipped |-> hash_flipped,
                                  image_path |-> image_path]),
                    [fs EXCEPT ![image_path] = face_image])

\* FaceDatabase.delete_person; removed tells whether os.remove succeeds: the
\* exception it raises otherwise is caught and passed over.
delete_person(rows, fs, name, removed) ==
    IF HasRow(rows, name)
    THEN LET k == RowIndex(rows, name)
             image_path == rows[k].image_path
         IN Outcome(TRUE,
                    SubSeq(rows, 1, k - 1) \o SubSeq(rows, k + 1, Len(rows)),
                    IF Truthy(image_path) /\ fs[image_path] # NoFile /\ removed
                    THEN [fs EXCEPT ![image_path] = NoFile] ELSE fs)
    ELSE Outcome(FALSE, rows, fs)

\* FaceDatabase.update_person_image
update_person_image(rows, fs, name, new_face_image, hs) ==
    IF ~HasRow(rows, name) THEN Outcome(FALSE, rows, fs)
    ELSE LET k == RowIndex(rows, name)
             old_image_path == rows[k].image_path
             removed == IF Truthy(old_image_path) /\ fs[old_image_path] # NoFile
                        THEN [fs EXCEPT ![old_image_path] = NoFile] ELSE fs
             hash_normal  == compute_hash(new_face_image, hs)
             hash_flipped == compute_hash(flip(new_face_image), hs)
             image_path   == image_filename(name)
         IN Outcome(TRUE,
                    [rows EXCEPT ![k] = [name |-> name, hash_normal |-> hash_normal,
                                         hash_flipped |-> hash_flipped,
                                         image_path |-> image_path]],
                    [removed EXCEPT ![image_path] = new_face_image])

(***************************************************************************)
(* find_match (face_database.py) and match_faces (face_utils.py).          *)
(***************************************************************************)
\* row_distance without the comparison with the mirrored fingerprint.
row_distance_normal_only(face_hash, row) ==
    db_hamming_distance(face_hash, row.hash_normal)

\* sim = min(sim_normal, sim_flipped): the distance of a query to one row
row_distance(face_hash, row) ==
    Min(db_hamming_distance(face_hash, row.hash_normal),
        db_hamming_distance(face_hash, row.hash_flipped))

\* The loop of find_match over the rows, from row i on.
RECURSIVE ScanRows(_, _, _, _)
ScanRows(rows, face_hash, i, best) ==
    IF i > Len(rows) THEN best
    ELSE LET sim == row_distance(face_hash, rows[i])
         IN ScanRows(rows, face_hash, i + 1,
                     IF sim < best.similarity
                     THEN [match |-> rows[i].name, similarity |-> sim,
                           image_path |-> rows[i].image_path]
                     ELSE best)

NoMatch == [status |-> "ok", name |-> None, sim |-> Zero, path |-> None]

\* match_result without the comparison with the threshold.
match_result_unchecked(best, threshold) ==
    IF Truthy(best.match)
    THEN [status |-> "ok", name |-> best.match,
          sim |-> Rat(Max(0, 100 * threshold - 100 * best.similarity), Max(1, threshold)),
          path |-> best.image_path]
    ELSE NoMatch

\* match_result returning the distance as a percentage of the threshold.
match_result_distance_pct(best, threshold) ==
    IF Truthy(best.match) /\ best.similarity <= threshold
    THEN IF threshold = 0
         THEN [NoMatch EXCEPT !.status = "ZeroDivisionError"]
         ELSE [status |-> "ok", name |-> best.match,
               sim |-> Rat(100 * best.similarity, threshold),
               path |-> best.image_path]
    ELSE NoMatch

\* The return of find_match once the closest row is known: (None, None, None),
\* or the row with max(0, 100 - distance / threshold * 100), a division that
\* raises ZeroDivisionError for threshold 0.
match_result(best, threshold) ==
    IF Truthy(best.match) /\ best.similarity <= threshold
    THEN IF threshold = 0
         THEN [NoMatch EXCEPT !.status = "ZeroDivisionError"]
         ELSE [status |-> "ok", name |-> best.match,
               sim |-> Rat(Max(0, 100 * threshold - 100 * best.similarity), threshold),
               path |-> best.image_path]
    ELSE NoMatch

\* find_match returning the first row within the threshold.
find_match_first_within(rows, face_hash, threshold) ==
    LET within == {i \in 1..Len(rows) : row_distance(face_hash, rows[i]) <= threshold}
        first == CHOOSE i \in within : \A j \in within : i <= j
    IN IF within = {} THEN NoMatch
       ELSE match_result([match |-> rows[first].name,
                          similarity |-> row_distance(face_hash, rows[first]),
                          image_path |-> rows[first].image_path], threshold)

\* FaceDatabase.find_match
find_match(rows, face_hash, threshold) ==
    match_result(ScanRows(rows, face_hash, 1,
                          [match |-> None, similarity |-> Inf, image_path |-> None]),
                 threshold)

\* A detection before match_faces: its box and, when extract_faces found a crop
\* of positive area, the crop and its fingerprints.
Unhashed == <<>>
Detection(bbox, face) ==
    [bbox |-> bbox, face |-> face, has_hash |-> FALSE,
     hash |-> Unhashed, hash_flipped |-> Unhashed,
     hash_rot5 |-> Unhashed, hash_rot_neg5 |-> Unhashed,
     person_name |-> None, similarity |-> Zero, db_image_path |-> None,
     is_unknown |-> FALSE,
     fate |-> "none", track_id |-> -1]      \* what track_faces did with it

hash_variants(det) == <<det.hash, det.hash_flipped, det.hash_rot5, det.hash_rot_neg5>>

\* The loop of match_faces over the variants of one detection, from variant k on.
RECURSIVE TryVariants(_, _, _, _, _)
TryVariants(variants, rows, threshold, k, best) ==
    IF k > Len(variants) THEN best
    ELSE IF Len(variants[k]) = 0 THEN TryVariants(variants, rows, threshold, k + 1, best)
    ELSE LET r == find_match(rows, variants[k], threshold)
         IN IF r.status # "ok" THEN [best EXCEPT !.status = r.status]
            ELSE TryVariants(variants, rows, threshold, k + 1,
                             IF Truthy(r.name) /\ RatGT(r.sim, best.sim) THEN r ELSE best)

\* The body of match_faces for one detection.
match_face(det, rows, threshold) ==
    IF ~det.has_hash THEN [status |-> "ok", det |-> det]
    ELSE LET best == TryVariants(hash_variants(det), rows, threshold, 1, NoMatch)
         IN [status |-> best.status,
             det |-> IF best.status # "ok" THEN det
                     ELSE IF Truthy(best.name)
                     THEN [det EXCEPT !.person_name = best.name, !.similarity = best.sim,
                                      !.db_image_path = best.path, !.is_unknown = FALSE]
                     ELSE [det EXCEPT !.person_name = None, !.similarity = Zero,
                                      !.db_image_path = None, !.is_unknown = TRUE]]

\* The loop of match_faces over the detections, from detection i on: an
\* exception ends the call.
RECURSIVE MatchFrom(_, _, _, _, _)
MatchFrom(dets, rows, threshold, i, out) ==
    IF i > Len(dets) THEN [status |-> "ok", dets |-> out]
    ELSE LET r == match_face(dets[i], rows, threshold)
         IN IF r.status # "ok" THEN [status |-> r.status, dets |-> dets]
            ELSE MatchFrom(dets, rows, threshold, i + 1, Append(out, r.det))

\* face_utils.match_faces on a list of detections
match_faces(dets, rows, threshold) == MatchFrom(dets, rows, threshold, 1, <<>>)

\* The loops of extract_faces and hash_faces over the detections, from
\* detection i on.
RECURSIVE HashFrom(_, _, _, _)
HashFrom(dets, hs, i, out) ==
    IF i > Len(dets) THEN out
    ELSE IF dets[i].face = NoFile THEN HashFrom(dets, hs, i + 1, Append(out, dets[i]))
    ELSE LET h == hash_faces(dets[i].face, hs)
         IN HashFrom(dets, hs, i + 1,
                     Append(out, [dets[i] EXCEPT !.has_hash = TRUE, !.hash = h.hash,
                                                 !.hash_flipped = h.hash_flipped,
                                                 !.hash_rot5 = h.hash_rot5,
                                                 !.hash_rot_neg5 = h.hash_rot_neg5]))

\* extract_faces and hash_faces on a list of detections
hash_detections(dets, hs) == HashFrom(dets, hs, 1, <<>>)

(***************************************************************************)
(* The spatial tracker (face_utils.py).  tracker['faces'] is a dict keyed  *)
(* by str(last_id): a sequence of tracks in insertion order, each with the *)
(* integer it was keyed by.                                                *)
(***************************************************************************)
MatchThreshold == 150               \* match_faces(detections, db, threshold=150.0)
UnknownSimilarityThreshold == 80    \* track_faces(..., unknown_similarity_threshold=80.0)
IouThreshold == Rat(1, 2)           \* settings "iou": 0.5, passed as iou_threshold

\* The box [x, y, w, h] with every length doubled: <<x_min, y_min, x_max, y_max>>.
Corners(bbox) ==
    <<2 * bbox[1] - bbox[3], 2 * bbox[2] - bbox[4],
      2 * bbox[1] + bbox[3], 2 * bbox[2] + bbox[4]>>

InterArea(c1, c2) ==
    Max(0, Min(c1[3], c2[3]) - Max(c1[1], c2[1])) * Max(0, Min(c1[4], c2[4]) - Max(c1[2], c2[2]))

\* calcular_iou dividing by the area of the first box.
calcular_iou_first_area(bbox1, bbox2) ==
    LET inter_area == InterArea(Corners(bbox1), Corners(bbox2))
        area1 == 4 * bbox1[3] * bbox1[4]
    IN IF area1 = 0 THEN Zero ELSE Rat(inter_area, area1)

\* calcular_iou without the intersection subtracted from the union.
calcular_iou_sum_of_areas(bbox1, bbox2) ==
    LET inter_area == InterArea(Corners(bbox1), Corners(bbox2))
        union_area == 4 * bbox1[3] * bbox1[4] + 4 * bbox2[3] * bbox2[4]
    IN IF union_area = 0 THEN Zero ELSE Rat(inter_area, union_area)

\* face_utils.calcular_iou on [x, y, w, h]; every length is doubled so that
\* x - w/2 stays an integer, every area is then four times the real one.
calcular_iou(bbox1, bbox2) ==
    LET x1_min == 2 * bbox1[1] - bbox1[3]
        y1_min == 2 * bbox1[2] - bbox1[4]
        x1_max == 2 * bbox1[1] + bbox1[3]
        y1_max == 2 * bbox1[2] + bbox1[4]
        x2_min == 2 * bbox2[1] - bbox2[3]
        y2_min == 2 * bbox2[2] - bbox2[4]
        x2_max == 2 * bbox2[1] + bbox2[3]
        y2_max == 2 * bbox2[2] + bbox2[4]
        xA == Max(x1_min, x2_min)
        yA == Max(y1_min, y2_min)
        xB == Min(x1_max, x2_max)
        yB == Min(y1_max, y2_max)
        inter_area == Max(0, xB - xA) * Max(0, yB - yA)
        area1 == 4 * bbox1[3] * bbox1[4]
        area2 == 4 * bbox2[3] * bbox2[4]
        union_area == area1 + area2 - inter_area
    IN IF union_area = 0 THEN Zero ELSE Rat(inter_area, union_area)

\* The label without the counter.
unknown_label_one(last_id) == "Desconocido #1"

\* f"Desconocido #{tracker['last_id'] + 1}"
unknown_label(last_id) == "Desconocido #" \o ToString(last_id + 1)

\* The dict literal track_faces stores for a detection.
Track(id, det, person_name, similarity, db_image_path, is_unknown) ==
    [id |-> id, bbox |-> det.bbox, face_image |-> det.face,
     hash |-> det.hash, hash_flipped |-> det.hash_flipped,
     person_name |-> person_name, similarity |-> similarity,
     db_image_path |-> db_image_path, is_unknown |-> is_unknown]

HasKey(faces, id) == \E k \in 1..Len(faces) : faces[k].id = id
KeyIndex(faces, id) == CHOOSE k \in 1..Len(faces) : faces[k].id = id
Ids(faces) == {faces[k].id : k \in 1..Len(faces)}

\* new_faces[track_id] = {...}
DictSet(faces, track) ==
    IF HasKey(faces, track.id) THEN [faces EXCEPT ![KeyIndex(faces, track.id)] = track]
    ELSE Append(faces, track)

\* The inner loop of the first pass, from detection i on: the index of the
\* unclaimed detection of highest IoU above the threshold, 0 for -1.
RECURSIVE BestDetFrom(_, _, _, _, _, _, _)
BestDetFrom(bbox, dets, matched_detections, iou_threshold, i, best_iou, best_det_idx) ==
    IF i > Len(dets) THEN best_det_idx
    ELSE IF i \in matched_detections
    THEN BestDetFrom(bbox, dets, matched_detections, iou_threshold, i + 1,
                     best_iou, best_det_idx)
    ELSE LET iou == calcular_iou(bbox, dets[i].bbox)
         IN IF RatGT(iou, iou_threshold) /\ RatGT(iou, best_iou)
            THEN BestDetFrom(bbox, dets, matched_detections, iou_threshold, i + 1, iou, i)
            ELSE BestDetFrom(bbox, dets, matched_detections, iou_threshold, i + 1,
                             best_iou, best_det_idx)

\* best_detection looking at the detections earlier tracks claimed as well.
best_detection_any(bbox, dets, matched_detections, iou_threshold) ==
    BestDetFrom(bbox, dets, {}, iou_threshold, 1, Zero, 0)

best_detection(bbox, dets, matched_detections, iou_threshold) ==
    BestDetFrom(bbox, dets, matched_detections, iou_threshold, 1, Zero, 0)

\* claimed_track keeping the box of the previous frame.
claimed_track_stale_box(tracked_face, det) ==
    [Track(tracked_face.id, det,
           IF Truthy(det.person_name) THEN det.person_name ELSE tracked_face.person_name,
           det.similarity, det.db_image_path, det.is_unknown)
     EXCEPT !.bbox = tracked_face.bbox]

\* The track a claimed detection leaves under the identifier of tracked_face.
claimed_track(tracked_face, det) ==
    Track(tracked_face.id, det,
          IF Truthy(det.person_name) THEN det.person_name ELSE tracked_face.person_name,
          det.similarity, det.db_image_path, det.is_unknown)

\* A detection marked with what became of it and the track it went to.
Fated(dets, i, fate, id) == [dets EXCEPT ![i].fate = fate, ![i].track_id = id]

\* The first pass of track_faces, from track k on.
RECURSIVE Associate(_, _, _, _, _, _)
Associate(faces, dets, iou_threshold, k, new_faces, matched_detections) ==
    IF k > Len(faces)
    THEN [new_faces |-> new_faces, matched_detections |-> matched_detections,
          dets |-> dets]
    ELSE LET best_det_idx == best_detection(faces[k].bbox, dets, matched_detections,
                                            iou_threshold)
         IN IF best_det_idx >= 1
            THEN Associate(faces, Fated(dets, best_det_idx, "claimed", faces[k].id),
                           iou_threshold, k + 1,
                           DictSet(new_faces, claimed_track(faces[k], dets[best_det_idx])),
                           matched_detections \cup {best_det_idx})
            ELSE Associate(faces, dets, iou_threshold, k + 1, new_faces, matched_detections)

\* The search for a similar unknown track, from entry k of new_faces on: the
\* index of the entry found, 0 for None.
RECURSIVE SimilarFrom(_, _, _, _, _, _)
SimilarFrom(det_hash, new_faces, threshold, k, min_distance, similar) ==
    IF k > Len(new_faces) THEN similar
    ELSE IF new_faces[k].is_unknown /\ Len(det_hash) > 0 /\ Len(new_faces[k].hash) > 0
    THEN LET distance == hamming_distance(det_hash, new_faces[k].hash)
         IN IF distance < min_distance /\ distance < threshold
            THEN SimilarFrom(det_hash, new_faces, threshold, k + 1, distance, k)
            ELSE SimilarFrom(det_hash, new_faces, threshold, k + 1, min_distance, similar)
    ELSE SimilarFrom(det_hash, new_faces, threshold, k + 1, min_distance, similar)

\* similar_track with min_distance initialised to 0: no distance is below it.
similar_track_zero_min(det_hash, new_faces, threshold) ==
    SimilarFrom(det_hash, new_faces, threshold, 1, 0, 0)

similar_track(det_hash, new_faces, threshold) ==
    SimilarFrom(det_hash, new_faces, threshold, 1, Inf, 0)

\* The counter left as it is.
next_id_stuck(last_id) == last_id

\* tracker['last_id'] += 1
next_id(last_id) == last_id + 1

\* The second pass of track_faces, from detection i on.
RECURSIVE AddNew(_, _, _, _, _, _)
AddNew(dets, matched_detections, threshold, i, new_faces, last_id) ==
    IF i > Len(dets) THEN [last_id |-> last_id, faces |-> new_faces, dets |-> dets]
    ELSE IF i \in matched_detections
    THEN AddNew(dets, matched_detections, threshold, i + 1, new_faces, last_id)
    ELSE IF dets[i].is_unknown
    THEN LET similar == similar_track(dets[i].hash, new_faces, threshold)
         IN IF similar >= 1
            THEN AddNew(Fated(dets, i, "merged", new_faces[similar].id),
                        matched_detections, threshold, i + 1,
                        [new_faces EXCEPT ![similar] =
                            Track(new_faces[similar].id, dets[i],
                                  new_faces[similar].person_name, Zero, None, TRUE)],
                        last_id)
            ELSE AddNew(Fated(dets, i, "created", last_id),
                        matched_detections, threshold, i + 1,
                        DictSet(new_faces,
                                Track(last_id, dets[i], unknown_label(last_id),
                                      Zero, None, TRUE)),
                        next_id(last_id))
    ELSE AddNew(Fated(dets, i, "created", last_id),
                matched_detections, threshold, i + 1,
                DictSet(new_faces,
                        Track(last_id, dets[i], dets[i].person_name, dets[i].similarity,
                              dets[i].db_image_path, FALSE)),
                next_id(last_id))

\* track_faces with new_faces starting as a copy of the previous table.
track_faces_keep(dets, tr, iou_threshold, unknown_similarity_threshold) ==
    LET first == Associate(tr.faces, dets, iou_threshold, 1, tr.faces, {})
    IN AddNew(first.dets, first.matched_detections, unknown_similarity_threshold, 1,
              first.new_faces, tr.last_id)

\* face_utils.track_faces: the tracker after the frame, and the detections
\* marked with the track each went to.
track_faces(dets, tr, iou_threshold, unknown_similarity_threshold) ==
    LET first == Associate(tr.faces, dets, iou_threshold, 1, <<>>, {})
    IN AddNew(first.dets, first.matched_detections, unknown_similarity_threshold, 1,
              first.new_faces, tr.last_id)

(***************************************************************************)
(* The detector (detector.py).  A raw box is [conf, width, height, skin]:  *)
(* the confidence in hundredths, the sides x2 - x1 and y2 - y1 in pixels,  *)
(* and what _has_skin_tone finds in the region: the percentage of skin     *)
(* pixels, -1 when cv2.cvtColor raises.                                    *)
(***************************************************************************)
MinConfidence == 60                 \* min_confidence=0.6, in hundredths
MinFaceSize == 40                   \* min_face_size=40
MaxAspectRatio == Rat(5, 2)         \* max_aspect_ratio=2.5
MinSkinPercentage == 10             \* min_skin_percentage=10.0

\* self.stats as __init__ and reset_stats set it
NewStats ==
    [total_detections |-> 0, filtered_confidence |-> 0, filtered_size |-> 0,
     filtered_aspect |-> 0, filtered_skin |-> 0, valid_detections |-> 0]

RawBox(conf, width, height, skin) ==
    [conf |-> conf, width |-> width, height |-> height, skin |-> skin]

\* ImprovedDetector._has_skin_tone: an empty region has no skin tone, an
\* exception of cv2 counts as skin tone.
has_skin_tone(box) ==
    IF box.width * box.height = 0 THEN FALSE
    ELSE IF box.skin = -1 THEN TRUE
    ELSE box.skin >= MinSkinPercentage

\* The body of the loop of _filter_detections for one box: the counter that
\* is incremented besides total_detections, or the exception raised.
filter_box(box) ==
    IF box.conf < MinConfidence THEN "filtered_confidence"
    ELSE IF box.width < MinFaceSize \/ box.height < MinFaceSize THEN "filtered_size"
    ELSE IF box.width = 0 \/ box.height = 0 THEN "ZeroDivisionError"
    ELSE IF RatGT(IF box.width * box.width >= box.height * box.height
                  THEN Rat(box.width, box.height) ELSE Rat(box.height, box.width),
                  MaxAspectRatio)
    THEN "filtered_aspect"
    ELSE IF ~has_skin_tone(box) THEN "filtered_skin"
    ELSE "valid_detections"

\* filter_box counting a box without skin tone as valid as well.
count_box_skin_twice(st, outcome) ==
    IF outcome = "filtered_skin"
    THEN [st EXCEPT !.total_detections = @ + 1, !.filtered_skin = @ + 1,
                    !.valid_detections = @ + 1]
    ELSE [st EXCEPT !.total_detections = @ + 1, ![outcome] = @ + 1]

\* self.stats['total_detections'] += 1, then the counter of the outcome
count_box(st, outcome) ==
    IF outcome = "ZeroDivisionError" THEN [st EXCEPT !.total_detections = @ + 1]
    ELSE [st EXCEPT !.total_detections = @ + 1, ![outcome] = @ + 1]

\* The loop of _filter_detections over results.boxes, from box i on.
RECURSIVE FilterFrom(_, _, _, _)
FilterFrom(boxes, i, st, valid_indices) ==
    IF i > Len(boxes) THEN [status |-> "ok", stats |-> st, valid_indices |-> valid_indices]
    ELSE LET outcome == filter_box(boxes[i])
         IN IF outcome = "ZeroDivisionError"
            THEN [status |-> outcome, stats |-> count_box(st, outcome),
                  valid_indices |-> valid_indices]
            ELSE FilterFrom(boxes, i + 1, count_box(st, outcome),
                            IF outcome = "valid_detections"
                            THEN Append(valid_indices, i) ELSE valid_indices)

\* ImprovedDetector._filter_detections: the statistics afterwards and the
\* indices of the boxes that are kept.
filter_detections(boxes, st) ==
    IF Len(boxes) = 0 THEN [status |-> "ok", stats |-> st, valid_indices |-> <<>>]
    ELSE FilterFrom(boxes, 1, st, <<>>)

(***************************************************************************)
(* The scanner (face_scanner.py).  detected_persons is a dict keyed by     *)
(* person name: a sequence of [name, data] in insertion order.             *)
(***************************************************************************)
HasPerson(persons, name) == \E k \in 1..Len(persons) : persons[k].name = name
PersonIndex(persons, name) == CHOOSE k \in 1..Len(persons) : persons[k].name = name

\* _update_detected_persons, from track k on.
RECURSIVE UpdateFrom(_, _, _)
UpdateFrom(persons, faces, k) ==
    IF k > Len(faces) THEN persons
    ELSE LET person_name == faces[k].person_name
         IN IF ~HasPerson(persons, person_name)
            THEN UpdateFrom(Append(persons, [name |-> person_name, data |-> faces[k]]),
                            faces, k + 1)
            ELSE LET j == PersonIndex(persons, person_name)
                 IN IF RatGT(faces[k].similarity, persons[j].data.similarity)
                    THEN UpdateFrom([persons EXCEPT ![j].data = faces[k]], faces, k + 1)
                    ELSE UpdateFrom(persons, faces, k + 1)

\* _update_detected_persons storing the track whatever its similarity.
RECURSIVE LastWinsFrom(_, _, _)
LastWinsFrom(persons, faces, k) ==
    IF k > Len(faces) THEN persons
    ELSE LET person_name == faces[k].person_name
         IN IF ~HasPerson(persons, person_name)
            THEN LastWinsFrom(Append(persons, [name |-> person_name, data |-> faces[k]]),
                              faces, k + 1)
            ELSE LastWinsFrom([persons EXCEPT ![PersonIndex(persons, person_name)].data =
                                   faces[k]], faces, k + 1)

update_detected_persons_last_wins(persons, faces) == LastWinsFrom(persons, faces, 1)

\* _update_detected_persons starting from an empty dict.
update_detected_persons_snapshot(persons, faces) == UpdateFrom(<<>>, faces, 1)

update_detected_persons(persons, faces) == UpdateFrom(persons, faces, 1)

\* get_detected_persons
get_detected_persons(persons) ==
    [k \in 1..Len(persons) |->
        [name |-> persons[k].name, similarity |-> persons[k].data.similarity,
         face_image |-> persons[k].data.face_image,
         db_image_path |-> persons[k].data.db_image_path,
         is_unknown |-> persons[k].data.is_unknown]]

NewTracker == [last_id |-> 0, faces |-> <<>>]

\* FaceRecognitionWindow.__init__: scanner None, is_running False,
\* detected_persons {} (a dict keyed by person name, in insertion order).
NewWindow == [scanner |-> FALSE, is_running |-> FALSE, detected_persons |-> <<>>]

\* The loop of FaceRecognitionWindow.update_detections over the list the
\* scanner returned, from entry k on.
RECURSIVE UpdateDetectionsFrom(_, _, _)
UpdateDetectionsFrom(shown, persons, k) ==
    IF k > Len(persons) THEN shown
    ELSE IF \E j \in 1..Len(shown) : shown[j].name = persons[k].name
    THEN UpdateDetectionsFrom(shown, persons, k + 1)
    ELSE UpdateDetectionsFrom(Append(shown, persons[k]), persons, k + 1)

\* FaceRecognitionWindow.update_detections
update_detections(shown, persons) == UpdateDetectionsFrom(shown, persons, 1)

\* The tracker and the view of a scanner: the state LiveFaceScanner.__init__
\* and VideoFaceScanner.__init__ construct.
NewScanner == [tracker |-> NewTracker, detected_persons |-> <<>>]

\* reset_tracker that leaves the identifier counter as it is.
reset_tracker_keeps_counter(scanner) ==
    [tracker |-> [last_id |-> scanner.tracker.last_id, faces |-> <<>>],
     detected_persons |-> <<>>]

\* LiveFaceScanner.reset_tracker / VideoFaceScanner.reset_tracker
reset_tracker(scanner) ==
    [tracker |-> [last_id |-> 0, faces |-> <<>>], detected_persons |-> <<>>]

(***************************************************************************)
(* Inputs of the model.                                                    *)
(***************************************************************************)
\* Centre-form boxes: B1 overlaps B0 with IoU 0.9, B2 is disjoint from both.
B0 == <<20, 10, 19, 10>>
B1 == <<21, 10, 19, 10>>
B2 == <<60, 10, 19, 10>>

\* The detections a video frame is made of: the fingerprints of faces 0 and 1
\* differ in 5 bits, those of 0 and 2 in 76, those of 1 and 2 in 81 (for
\* hash_size >= 5); the last has a crop of zero area.
FrameDets == {Detection(B0, Image(0, "none")), Detection(B1, Image(1, "none")),
              Detection(B2, Image(2, "none")), Detection(B1, NoFile)}

\* The detections of a still image.
ImageDets == {Detection(B0, f) : f \in Faces \cup {NoFile}}

\* The images a person is registered with.
RegisterImages == {Image(0, "none"), Image(1, "none")}

SeqsUpTo(S, n) == UNION {[1..k -> S] : k \in 0..n}

NoCall == [op |-> "none", name |-> None, image |-> NoFile, ret |-> FALSE,
           dets |-> <<>>, status |-> "ok", face_hash |-> <<>>, threshold |-> 0,
           res |-> NoMatch, det |-> Detection(B0, NoFile),
           hash1 |-> <<>>, hash2 |-> <<>>, distance |-> 0, db_distance |-> 0,
           bbox1 |-> B0, bbox2 |-> B0, iou |-> Zero,
           boxes |-> <<>>, valid_indices |-> <<>>, stats |-> NewStats]

EmptyFiles == [p \in Paths |-> NoFile]

StoreVars == <<db, files, call, pre>>
TrackVars == <<tracker, detected_persons, frame, preTracker, seen_ids, fed, folded, fresh,
               lost, window>>

InitTracker ==
    /\ tracker = NewTracker
    /\ detected_persons = <<>>
    /\ frame = <<>>
    /\ preTracker = NewTracker
    /\ seen_ids = {}
    /\ fed = 0
    /\ folded = {}
    /\ fresh = NewScanner
    /\ lost = {}
    /\ window = NewWindow

(***************************************************************************)
(* Spec: the identity store and the scan of still images, from an empty    *)
(* store.                                                                  *)
(***************************************************************************)
Init ==
    /\ hash_size \in HashSizes
    /\ db = <<>>
    /\ files = EmptyFiles
    /\ call = NoCall
    /\ pre = [db |-> <<>>, files |-> EmptyFiles]
    /\ InitTracker
    /\ stats = NewStats

StoreStep(op, name, image, o) ==
    /\ db' = o.db
    /\ files' = o.files
    /\ call' = [NoCall EXCEPT !.op = op, !.name = name, !.image = image, !.ret = o.ret]
    /\ pre' = [db |-> db, files |-> files]
    /\ UNCHANGED <<hash_size, TrackVars, stats>>

\* LiveFaceScanner.register_new_person -> FaceDatabase.register_person
RegisterPerson ==
    \E name \in Names, image \in RegisterImages :
        StoreStep("register_person", name, image,
                  register_person(db, files, name, image, hash_size))

UpdatePersonImage ==
    \E name \in Names, image \in RegisterImages :
        StoreStep("update_person_image", name, image,
                  update_person_image(db, files, name, image, hash_size))

DeletePerson ==
    \E name \in Names, removed \in BOOLEAN :
        StoreStep("delete_person", name, NoFile, delete_person(db, files, name, removed))

\* ImageFaceScanner.process_image: extract_faces, hash_faces, match_faces
ProcessImage ==
    \E dets \in SeqsUpTo(ImageDets, 1) :
        LET m == match_faces(hash_detections(dets, hash_size), db, MatchThreshold)
        IN /\ call' = [NoCall EXCEPT !.op = "process_image", !.dets = m.dets,
                                     !.status = m.status, !.threshold = MatchThreshold]
           /\ pre' = [db |-> db, files |-> files]
           /\ UNCHANGED <<hash_size, db, files, TrackVars, stats>>

Next == RegisterPerson \/ UpdatePersonImage \/ DeletePerson \/ ProcessImage

Spec == Init /\ [][Next]_vars

(***************************************************************************)
(* SpecTrack: a scanner session over video frames.                         *)
(***************************************************************************)
InitTrack ==
    /\ hash_size = MaxHashSize
    /\ db = <<>>
    /\ files = EmptyFiles
    /\ call = NoCall
    /\ pre = [db |-> <<>>, files |-> EmptyFiles]
    /\ InitTracker
    /\ stats = NewStats

\* The first half of process_frame, which does not read the scanner:
\* hash_faces and match_faces on the detections of a frame.
recognize(dets, rows, hs) == match_faces(hash_detections(dets, hs), rows, MatchThreshold)

\* process_frame of LiveFaceScanner and VideoFaceScanner on the recognized
\* detections m of a frame: track_faces, _update_detected_persons.
process_frame(scanner, m) ==
    LET tr == track_faces(m.dets, scanner.tracker, IouThreshold, UnknownSimilarityThreshold)
    IN [status |-> m.status,
        tracker |-> [last_id |-> tr.last_id, faces |-> tr.faces],
        detected_persons |-> update_detected_persons(scanner.detected_persons, tr.faces),
        dets |-> tr.dets]

\* The tracks of the table before a frame that new_faces does not carry.
Dropped(faces, new_faces) ==
    {faces[k] : k \in {j \in 1..Len(faces) : faces[j].id \notin Ids(new_faces)}}

Snapshots(faces) ==
    {[name |-> faces[k].person_name, similarity |-> faces[k].similarity] :
        k \in 1..Len(faces)}

\* LiveFaceScanner.process_frame / VideoFaceScanner.process_frame on a frame
\* whose detections are drawn from D
ProcessFrameOf(D) ==
    \E dets \in SeqsUpTo(D, MaxDets) :
        /\ fed + Len(dets) <= MaxSessionDets
        /\ \E m \in {recognize(dets, db, hash_size)} :
           \E r \in {process_frame([tracker |-> tracker,
                                     detected_persons |-> detected_persons], m)},
              f \in {process_frame(fresh, m)} :
              /\ r.status = "ok"
              /\ tracker' = r.tracker
              /\ detected_persons' = r.detected_persons
              /\ frame' = r.dets
              /\ preTracker' = tracker
              /\ seen_ids' = seen_ids \cup Ids(r.tracker.faces)
              /\ fed' = fed + Len(dets)
              /\ folded' = folded \cup Snapshots(r.tracker.faces)
              /\ fresh' = [tracker |-> f.tracker, detected_persons |-> f.detected_persons]
              /\ lost' = lost \cup Dropped(tracker.faces, r.tracker.faces)
        /\ call' = [NoCall EXCEPT !.op = "process_frame"]
        /\ UNCHANGED <<hash_size, db, files, pre, stats>>

ProcessFrame == ProcessFrameOf(FrameDets) /\ UNCHANGED window

\* The scanner set to the state r by the operation op: a reset, or the
\* construction of a scanner.
ScannerSetTo(r, op) ==
    /\ tracker' = r.tracker
    /\ detected_persons' = r.detected_persons
    /\ frame' = <<>>
    /\ preTracker' = tracker
    /\ seen_ids' = {}
    /\ fed' = 0
    /\ folded' = {}
    /\ fresh' = NewScanner
    /\ lost' = {}
    /\ call' = [NoCall EXCEPT !.op = op]
    /\ UNCHANGED <<hash_size, db, files, pre, stats>>

\* LiveFaceScanner.reset_tracker / VideoFaceScanner.reset_tracker
ResetTracker ==
    /\ ScannerSetTo(reset_tracker([tracker |-> tracker,
                                   detected_persons |-> detected_persons]),
                    "reset_tracker")
    /\ UNCHANGED window

NextTrack == ProcessFrame \/ ResetTracker

SpecTrack == InitTrack /\ [][NextTrack]_vars

(***************************************************************************)
(* SpecSession: a scanner session over a store file whose one row holds    *)
(* fingerprints of the length hash_faces produces, so that detections are  *)
(* matched: face 1 at distance 0, face 0 at 5 bits, face 2 at 81 bits.     *)
(***************************************************************************)
SessionStore(hs) ==
    <<[name |-> "Alice",
       hash_normal |-> hash_image_multi(Image(1, "none"), hs),
       hash_flipped |-> hash_image_multi(flip(Image(1, "none")), hs),
       image_path |-> image_filename("Alice")]>>

InitSession ==
    /\ hash_size = MaxHashSize
    /\ db = SessionStore(hash_size)
    /\ files = [EmptyFiles EXCEPT ![image_filename("Alice")] = Image(1, "none")]
    /\ call = NoCall
    /\ pre = [db |-> <<>>, files |-> EmptyFiles]
    /\ InitTracker
    /\ stats = NewStats

\* The frames of a session: the detections extract_faces found a crop for.
SessionDets == {d \in FrameDets : d.face # NoFile}

ProcessSessionFrame == ProcessFrameOf(SessionDets) /\ UNCHANGED window

NextSession == ProcessSessionFrame \/ ResetTracker

SpecSession == InitSession /\ [][NextSession]_vars

(***************************************************************************)
(* SpecWindow: the main window (main_face_recognition.py) over an empty     *)
(* store: the camera button, the clear button and the frames of the timer. *)
(***************************************************************************)
\* The faces in front of the camera: two whose fingerprints are too far
\* apart to be merged into one unknown track.
WindowDets == {Detection(B1, Image(1, "none")), Detection(B2, Image(2, "none"))}

\* FaceRecognitionWindow.start_camera, reached through toggle_camera when the
\* camera is not running.  loaded: LiveFaceScanner(**settings) raises no
\* exception; opened: webcam_capture.isOpened().
StartCamera ==
    /\ ~window.is_running
    /\ \E loaded, opened \in BOOLEAN :
          IF ~window.scanner /\ ~loaded
          THEN /\ call' = [NoCall EXCEPT !.op = "start_camera"]
               /\ UNCHANGED <<hash_size, db, files, pre, TrackVars, stats>>
          ELSE /\ ScannerSetTo(IF ~window.scanner THEN NewScanner
                                ELSE reset_tracker([tracker |-> tracker,
                                                    detected_persons |-> detected_persons]),
                               "start_camera")
               /\ window' = [window EXCEPT !.scanner = TRUE, !.is_running = opened]

\* FaceRecognitionWindow.stop_camera, reached through toggle_camera when the
\* camera is running.
StopCamera ==
    /\ window.is_running
    /\ window' = [window EXCEPT !.is_running = FALSE]
    /\ call' = [NoCall EXCEPT !.op = "stop_camera"]
    /\ UNCHANGED <<hash_size, db, files, pre, tracker, detected_persons, frame,
                   preTracker, seen_ids, fed, folded, fresh, lost, stats>>

\* FaceRecognitionWindow.update_frame on a frame the camera delivered:
\* scanner.process_frame, then update_detections.
UpdateFrame ==
    /\ window.is_running
    /\ window.scanner
    /\ ProcessFrameOf(WindowDets)
    /\ window' = [window EXCEPT !.detected_persons =
                      update_detections(window.detected_persons,
                                        get_detected_persons(detected_persons'))]

\* FaceRecognitionWindow.clear_detections
ClearDetections ==
    /\ window' = [window EXCEPT !.detected_persons = <<>>]
    /\ IF window.scanner
       THEN ScannerSetTo(reset_tracker([tracker |-> tracker,
                                        detected_persons |-> detected_persons]),
                         "clear_detections")
       ELSE /\ call' = [NoCall EXCEPT !.op = "clear_detections"]
            /\ UNCHANGED <<hash_size, db, files, pre, tracker, detected_persons, frame,
                           preTracker, seen_ids, fed, folded, fresh, lost, stats>>

NextWindow == StartCamera \/ StopCamera \/ UpdateFrame \/ ClearDetections

SpecWindow == InitTrack /\ [][NextWindow]_vars

(***************************************************************************)
(* SpecDetector: a detector and the calls of detect_objects and            *)
(* reset_stats.                                                            *)
(***************************************************************************)
\* The raw boxes of the model: one that passes every filter, one for which
\* cv2 raises, and boxes that fail one filter or two.
RawBoxes ==
    {RawBox(90, 40, 40, 10), RawBox(90, 40, 40, -1), RawBox(90, 40, 40, 5),
     RawBox(90, 120, 40, 10), RawBox(90, 30, 40, 10), RawBox(90, 40, 0, 10),
     RawBox(90, 30, 120, 5), RawBox(50, 40, 40, 10), RawBox(50, 30, 40, 5)}

\* ImprovedDetector.detect_objects on an image in which the network finds boxes
DetectObjects ==
    \E boxes \in SeqsUpTo(RawBoxes, MaxBoxes) :
        /\ stats.total_detections + Len(boxes) <= MaxTotal
        /\ \E r \in {filter_detections(boxes, stats)} :
              /\ stats' = r.stats
              /\ call' = [NoCall EXCEPT !.op = "detect_objects", !.status = r.status,
                                         !.boxes = boxes,
                                         !.valid_indices = r.valid_indices,
                                         !.stats = stats]
        /\ UNCHANGED <<hash_size, db, files, pre, TrackVars>>

\* ImprovedDetector.reset_stats
ResetStats ==
    /\ stats' = NewStats
    /\ call' = [NoCall EXCEPT !.op = "reset_stats", !.stats = stats]
    /\ UNCHANGED <<hash_size, db, files, pre, TrackVars>>

NextDetector == DetectObjects \/ ResetStats

SpecDetector == InitTrack /\ [][NextDetector]_vars

(***************************************************************************)
(* SpecMatch: find_match and match_faces as functions of the store, the    *)
(* query and the threshold.  The store is the persisted table as the call  *)
(* finds it; Init draws it, the query and the threshold.                   *)
(***************************************************************************)
GalleryFP == {<<"0", "0">>, <<"0", "7">>, <<"f", "f">>, <<"0">>}
FlippedFP == {<<"0", "7">>, <<"f", "f">>}
Thresholds == {0, 3, 10}

Row(name, hash_normal, hash_flipped) ==
    [name |-> name, hash_normal |-> hash_normal, hash_flipped |-> hash_flipped,
     image_path |-> image_filename(name)]

GalleryRows == {Row(n, a, b) : n \in Names, a \in GalleryFP, b \in FlippedFP}

\* name TEXT NOT NULL UNIQUE
UniqueNames(rows) ==
    \A i, j \in 1..Len(rows) : rows[i].name = rows[j].name => i = j

GalleryDbs == {rows \in SeqsUpTo(GalleryRows, MaxRows) : UniqueNames(rows)}

\* A detection as hash_faces leaves it, with the four fingerprints given.
QueryDet(a, b) ==
    [Detection(B0, Image(0, "none")) EXCEPT
        !.has_hash = TRUE, !.hash = a, !.hash_flipped = b,
        !.hash_rot5 = b, !.hash_rot_neg5 = a]

PendingCalls ==
    {[NoCall EXCEPT !.op = "find_match", !.status = "pending",
                    !.face_hash = q, !.threshold = t] :
        q \in GalleryFP, t \in Thresholds}
    \cup
    {[NoCall EXCEPT !.op = "match_faces", !.status = "pending",
                    !.det = QueryDet(a, b), !.threshold = t] :
        a \in GalleryFP, b \in GalleryFP, t \in Thresholds}
    \cup
    \* a detection extract_faces found no crop for
    {[NoCall EXCEPT !.op = "match_faces", !.status = "pending",
                    !.det = Detection(B0, NoFile), !.threshold = t] :
        t \in Thresholds}

InitMatch ==
    /\ hash_size = MaxHashSize
    /\ db \in GalleryDbs
    /\ files = EmptyFiles
    /\ call \in PendingCalls
    /\ pre = [db |-> <<>>, files |-> EmptyFiles]
    /\ InitTracker
    /\ stats = NewStats

FindMatch ==
    /\ call.op = "find_match"
    /\ call.status = "pending"
    /\ LET r == find_match(db, call.face_hash, call.threshold)
       IN call' = [call EXCEPT !.status = r.status, !.res = r]
    /\ UNCHANGED <<hash_size, db, files, pre, TrackVars, stats>>

MatchFaces ==
    /\ call.op = "match_faces"
    /\ call.status = "pending"
    /\ LET m == match_faces(<<call.det>>, db, call.threshold)
       IN call' = [call EXCEPT !.status = m.status, !.dets = m.dets]
    /\ UNCHANGED <<hash_size, db, files, pre, TrackVars, stats>>

NextMatch == FindMatch \/ MatchFaces

SpecMatch == InitMatch /\ [][NextMatch]_vars

(***************************************************************************)
(* SpecPure: the two Hamming distances and calcular_iou as functions of    *)
(* their arguments, which Init draws.                                      *)
(***************************************************************************)
\* Fingerprints are strings of hexadecimal digits; "g" stands for a character
\* that is none.
PureDigits == {"0", "7", "f", "g"}
PureFingerprints == UNION {[1..n -> PureDigits] : n \in 1..MaxFpLen}

\* [int(x), int(y), int(w), int(h)]: a width or height below 1 truncates to 0.
PureBoxes == {<<x, y, w, h>> : x \in {2, 3, 5}, y \in {2, 3}, w \in 0..MaxSide, h \in 0..MaxSide}

PureCalls ==
    {[NoCall EXCEPT !.op = "hamming_distance", !.status = "pending",
                    !.hash1 = a, !.hash2 = b] :
        a \in PureFingerprints, b \in PureFingerprints}
    \cup
    {[NoCall EXCEPT !.op = "calcular_iou", !.status = "pending",
                    !.bbox1 = a, !.bbox2 = b] :
        a \in PureBoxes, b \in PureBoxes}

InitPure ==
    /\ hash_size = MaxHashSize
    /\ db = <<>>
    /\ files = EmptyFiles
    /\ call \in PureCalls
    /\ pre = [db |-> <<>>, files |-> EmptyFiles]
    /\ InitTracker
    /\ stats = NewStats

\* hamming_distance(hash1, hash2) and FaceDatabase._hamming_distance(hash1, hash2)
HammingDistance ==
    /\ call.op = "hamming_distance"
    /\ call.status = "pending"
    /\ call' = [call EXCEPT !.status = "ok",
                            !.distance = hamming_distance(call.hash1, call.hash2),
                            !.db_distance = db_hamming_distance(call.hash1, call.hash2)]
    /\ UNCHANGED <<hash_size, db, files, pre, TrackVars, stats>>

\* calcular_iou(bbox1, bbox2)
CalcularIou ==
    /\ call.op = "calcular_iou"
    /\ call.status = "pending"
    /\ call' = [call EXCEPT !.status = "ok",
                            !.iou = calcular_iou(call.bbox1, call.bbox2)]
    /\ UNCHANGED <<hash_size, db, files, pre, TrackVars, stats>>

NextPure == HammingDistance \/ CalcularIou

SpecPure == InitPure /\ [][NextPure]_vars

(***************************************************************************)
(* Properties.                                                             *)
(***************************************************************************)
Range(seq) == {seq[i] : i \in 1..Len(seq)}
Done == call.status # "pending"

\* C1: every fingerprint variant hash_faces attaches to a detection has the
\* length of the reference fingerprints register_person and
\* update_person_image stored, so find_match can compare them.
C1_FingerprintsComparable ==
    call.op = "process_image" =>
        \A i \in 1..Len(call.dets) : call.dets[i].has_hash =>
            \A k \in 1..Len(db), v \in Range(hash_variants(call.dets[i])) :
                /\ Len(v) = Len(db[k].hash_normal)
                /\ Len(v) = Len(db[k].hash_flipped)
                /\ row_distance(v, db[k]) # Inf

\* The tracks of the previous frame and the detections of this one.
Prev == preTracker.faces
IoU(k, i) == calcular_iou(Prev[k].bbox, frame[i].bbox)
EarlierClaims(k, i) ==
    /\ frame[i].fate = "claimed"
    /\ \E k2 \in 1..(k - 1) : Prev[k2].id = frame[i].track_id
Overlaps(k, i) == RatGT(IoU(k, i), IouThreshold) /\ ~EarlierClaims(k, i)
\* Detection i is the one of highest IoU among those left to track k, the
\* lowest index on ties.
IsBest(k, i) ==
    /\ Overlaps(k, i)
    /\ \A i2 \in 1..Len(frame) :
          (i2 # i /\ ~EarlierClaims(k, i2)) =>
              \/ RatGT(IoU(k, i), IoU(k, i2))
              \/ RatEQ(IoU(k, i), IoU(k, i2)) /\ i < i2
OneFaceAtNineTenths ==
    /\ Len(Prev) = 1
    /\ Len(frame) = 1
    /\ RatEQ(IoU(1, 1), Rat(9, 10))

\* C2 as stated: a track that overlaps a detection left to it above the
\* threshold is in the table after the frame, under its identifier, with the
\* box of that detection.
C2_TrackCarriesOverlappingBox ==
    \A k \in 1..Len(Prev), i \in 1..Len(frame) :
        Overlaps(k, i) =>
            \E j \in 1..Len(tracker.faces) :
                /\ tracker.faces[j].id = Prev[k].id
                /\ tracker.faces[j].bbox = frame[i].bbox

\* C2 as amended: such a track is in the table after the frame under its
\* identifier; its box is that of the detection of highest IoU left to it,
\* which it claimed, or, when that detection is unknown, of an unknown
\* detection merged into it afterwards.  One face seen at IoU 0.9 in two
\* consecutive frames keeps its one identifier.
C2_TrackKeepsIdentifier ==
    /\ \A k \in 1..Len(Prev), i \in 1..Len(frame) :
          Overlaps(k, i) =>
              \E j \in 1..Len(tracker.faces), b \in 1..Len(frame) :
                  /\ tracker.faces[j].id = Prev[k].id
                  /\ IsBest(k, b)
                  /\ frame[b].fate = "claimed"
                  /\ frame[b].track_id = Prev[k].id
                  /\ \/ tracker.faces[j].bbox = frame[b].bbox
                     \/ /\ frame[b].is_unknown
                        /\ \E m \in 1..Len(frame) :
                              /\ frame[m].fate = "merged"
                              /\ frame[m].track_id = Prev[k].id
                              /\ tracker.faces[j].bbox = frame[m].bbox
    /\ OneFaceAtNineTenths =>
          /\ Ids(tracker.faces) = Ids(Prev)
          /\ tracker.last_id = preTracker.last_id
          /\ tracker.faces[1].bbox = frame[1].bbox

C2_Witness ==
    /\ OneFaceAtNineTenths
    /\ Len(tracker.faces) = 1
    /\ tracker.faces[1].id = Prev[1].id
    /\ tracker.faces[1].bbox = frame[1].bbox
    /\ tracker.faces[1].bbox # Prev[1].bbox

HasFate(i) == frame[i].fate \in {"claimed", "merged", "created"}
ClaimedSomething(k) ==
    \E i \in 1..Len(frame) : frame[i].fate = "claimed" /\ frame[i].track_id = Prev[k].id

\* C3: after a frame every track of the table was claimed by, merged with or
\* created from a detection of that frame, whose box and fingerprint it
\* carries; a previous track that claimed no detection is absent; a frame with
\* no detections leaves the table empty.
C3_OnlyTracksOfThisFrame ==
    /\ \A j \in 1..Len(tracker.faces) :
          \E i \in 1..Len(frame) :
              /\ HasFate(i)
              /\ frame[i].track_id = tracker.faces[j].id
              /\ frame[i].bbox = tracker.faces[j].bbox
              /\ frame[i].hash = tracker.faces[j].hash
    /\ \A k \in 1..Len(Prev) :
          ~ClaimedSomething(k) => Prev[k].id \notin Ids(tracker.faces)
    /\ frame = <<>> => tracker.faces = <<>>

C3_Witness ==
    /\ Len(Prev) = 1
    /\ Prev[1].is_unknown
    /\ frame = <<>>
    /\ tracker.faces = <<>>
    /\ tracker.last_id = 1

Created(dets) == {i \in 1..Len(dets) : dets[i].fate = "created"}

\* C4: in a step that is no reset the counter does not decrease, every track
\* created gets an identifier above every identifier used before and above
\* those created before it in the frame, and an identifier that has left the
\* table does not come back.
C4_IdentifiersNeverReused ==
    [][seen_ids \subseteq seen_ids' =>
          /\ tracker'.last_id >= tracker.last_id
          /\ \A i \in Created(frame') :
                /\ \A id \in seen_ids : frame'[i].track_id > id
                /\ \A i2 \in Created(frame') :
                      i2 < i => frame'[i2].track_id < frame'[i].track_id
                /\ frame'[i].track_id < tracker'.last_id
          /\ \A id \in seen_ids \ Ids(tracker.faces) : id \notin Ids(tracker'.faces)
      ]_vars

C4_Witness ==
    /\ seen_ids \ Ids(Prev) # {}
    /\ Ids(Prev) \ Ids(tracker.faces) # {}
    /\ \E i \in Created(frame) : \A id \in seen_ids \ {frame[i].track_id} :
          frame[i].track_id > id

UnclaimedUnknown(i) == frame[i].fate # "claimed" /\ frame[i].is_unknown
SimilarUnknowns(i, j) ==
    /\ i < j
    /\ UnclaimedUnknown(i)
    /\ UnclaimedUnknown(j)
    /\ hamming_distance(frame[i].hash, frame[j].hash) < UnknownSimilarityThreshold

\* C5 as stated: two unclaimed unknown detections of a frame whose
\* fingerprints are closer than the unknown-merge threshold end in one track,
\* the second allocating no identifier.
C5_SimilarUnknownsShareTrack ==
    \A i, j \in 1..Len(frame) :
        SimilarUnknowns(i, j) =>
            /\ frame[j].fate = "merged"
            /\ frame[j].track_id = frame[i].track_id

\* C5 as amended: when no other unclaimed unknown detection lies between the
\* two in the frame's list, the second allocates no identifier and no label:
\* it is merged into an unknown track the table already holds.
C5_AdjacentSimilarUnknownMerges ==
    \A i, j \in 1..Len(frame) :
        (/\ SimilarUnknowns(i, j)
         /\ \A m \in (i + 1)..(j - 1) : ~UnclaimedUnknown(m)) =>
            /\ frame[j].fate = "merged"
            /\ \E t \in 1..Len(tracker.faces) :
                  /\ tracker.faces[t].id = frame[j].track_id
                  /\ tracker.faces[t].is_unknown
                  /\ tracker.faces[t].id < tracker.last_id
            /\ tracker.last_id - preTracker.last_id < Cardinality({m \in 1..Len(frame) :
                                                                     frame[m].fate # "claimed"})

C5_Witness ==
    /\ Len(frame) = 2
    /\ SimilarUnknowns(1, 2)
    /\ hamming_distance(frame[1].hash, frame[2].hash) = 5
    /\ frame[1].fate = "created"
    /\ frame[2].fate = "merged"
    /\ Len(tracker.faces) = 1
    /\ tracker.last_id = preTracker.last_id + 1
    /\ tracker.faces[1].person_name = unknown_label(preTracker.last_id)

\* The Hamming distance of a fingerprint to the nearer of the two fingerprints
\* of a row.
BitsApart(v, row) ==
    Min(db_hamming_distance(v, row.hash_normal), db_hamming_distance(v, row.hash_flipped))
NearRecord(det, threshold) ==
    \E k \in 1..Len(db), v \in Range(hash_variants(det)) : BitsApart(v, db[k]) < threshold

\* C7: when some variant of the detection is closer than the threshold to the
\* normal or mirrored fingerprint of a stored record, match_faces marks the
\* detection known, with a stored name and a similarity above 0; with the one
\* record Alice at 3 bits and threshold 10 the name is Alice.
C7_NearRecordIsKnown ==
    (call.op = "match_faces" /\ Done /\ NearRecord(call.det, call.threshold)) =>
        /\ call.status = "ok"
        /\ \E k \in 1..Len(db) : call.dets[1].person_name = db[k].name
        /\ RatGT(call.dets[1].similarity, Zero)
        /\ ~call.dets[1].is_unknown

C7_Witness ==
    /\ call.op = "match_faces"
    /\ Done
    /\ Len(db) = 1
    /\ db[1].name = "Alice"
    /\ call.threshold = 10
    /\ \A v \in Range(hash_variants(call.det)) : BitsApart(v, db[1]) = 3
    /\ call.dets[1].person_name = "Alice"
    /\ ~call.dets[1].is_unknown

\* C8: a record find_match returns is within the threshold of the query: the
\* smaller of the distances to its two fingerprints does not exceed it.
C8_ReturnedRecordWithinThreshold ==
    (call.op = "find_match" /\ Done /\ call.res.name # None) =>
        \E k \in 1..Len(db) :
            /\ db[k].name = call.res.name
            /\ db[k].image_path = call.res.path
            /\ BitsApart(call.face_hash, db[k]) <= call.threshold

C8_Witness ==
    /\ call.op = "find_match"
    /\ Done
    /\ call.res.name # None
    /\ Len(db) = 2
    /\ \E k \in 1..Len(db) : BitsApart(call.face_hash, db[k]) > call.threshold
    /\ \E k \in 1..Len(db) : BitsApart(call.face_hash, db[k]) = call.threshold

ExactRows(face_hash) ==
    {k \in 1..Len(db) : face_hash = db[k].hash_normal \/ face_hash = db[k].hash_flipped}

\* C9: for threshold 0 find_match completes, and returns a record exactly
\* when the query equals the normal or mirrored fingerprint of a stored
\* record, which is then the record returned.
C9_ThresholdZeroExactMatch ==
    (call.op = "find_match" /\ Done /\ call.threshold = 0) =>
        /\ call.status = "ok"
        /\ call.res.name # None <=> ExactRows(call.face_hash) # {}
        /\ call.res.name # None =>
              \E k \in ExactRows(call.face_hash) : db[k].name = call.res.name

\* C10: register_person with a name that has a record returns False and
\* leaves the rows and the image files as they were.
C10_DuplicateRegistrationRefused ==
    (call.op = "register_person" /\ HasRow(pre.db, call.name)) =>
        /\ call.ret = FALSE
        /\ db = pre.db
        /\ files = pre.files

C10_Witness ==
    /\ call.op = "register_person"
    /\ HasRow(pre.db, call.name)
    /\ call.ret = FALSE
    /\ files[image_filename(call.name)] # call.image
    /\ db[RowIndex(db, call.name)].hash_normal # compute_hash(call.image, hash_size)

\* C11: on fingerprints of equal length both Hamming distances are symmetric
\* and zero on identical arguments.
C11_HammingSymmetricZeroOnEqual ==
    (call.op = "hamming_distance" /\ Done /\ Len(call.hash1) = Len(call.hash2)) =>
        /\ call.distance = hamming_distance(call.hash2, call.hash1)
        /\ call.db_distance = db_hamming_distance(call.hash2, call.hash1)
        /\ call.hash1 = call.hash2 => (call.distance = 0 /\ call.db_distance = 0)

C11_Witness ==
    /\ call.op = "hamming_distance"
    /\ Done
    /\ call.hash1 = <<"0", "g">>
    /\ call.hash2 = <<"7", "f">>
    /\ call.distance = 7
    /\ call.db_distance = 7
    /\ hamming_distance(call.hash2, call.hash1) = 7

\* Two boxes whose areas share no point of positive area.
NoOverlap(bbox1, bbox2) ==
    \/ bbox1[3] = 0 \/ bbox1[4] = 0 \/ bbox2[3] = 0 \/ bbox2[4] = 0
    \/ 2 * bbox1[1] + bbox1[3] <= 2 * bbox2[1] - bbox2[3]
    \/ 2 * bbox2[1] + bbox2[3] <= 2 * bbox1[1] - bbox1[3]
    \/ 2 * bbox1[2] + bbox1[4] <= 2 * bbox2[2] - bbox2[4]
    \/ 2 * bbox2[2] + bbox2[4] <= 2 * bbox1[2] - bbox1[4]

\* C12: calcular_iou is symmetric, and 0.0 for two boxes that do not overlap.
C12_IouSymmetricZeroWhenDisjoint ==
    (call.op = "calcular_iou" /\ Done) =>
        /\ call.iou = calcular_iou(call.bbox2, call.bbox1)
        /\ NoOverlap(call.bbox1, call.bbox2) => RatEQ(call.iou, Zero)
        /\ ~NoOverlap(call.bbox1, call.bbox2) => RatGT(call.iou, Zero)

C12_Witness ==
    /\ call.op = "calcular_iou"
    /\ Done
    /\ call.bbox1 = <<2, 2, 2, 2>>
    /\ call.bbox2 = <<3, 2, 2, 1>>
    /\ RatEQ(call.iou, Rat(1, 5))
    /\ RatEQ(calcular_iou(call.bbox2, call.bbox1), Rat(1, 5))

SameBox == call.op = "calcular_iou" /\ Done /\ call.bbox1 = call.bbox2

\* C13 as stated: calcular_iou(box, box) is 1.0 for every integer box, a box
\* of width or height 0 included.
C13_IouOfBoxWithItselfIsOne ==
    SameBox => RatEQ(call.iou, Rat(1, 1))

\* C13 as amended: calcular_iou(box, box) is 1.0 for every integer box of
\* positive width and height, and 0.0 for a box whose width or height is 0.
C13_IouOfBoxWithItself ==
    SameBox =>
        IF call.bbox1[3] > 0 /\ call.bbox1[4] > 0
        THEN RatEQ(call.iou, Rat(1, 1))
        ELSE call.iou = Zero

C13_Witness ==
    /\ SameBox
    /\ call.bbox1 = <<3, 2, 1, 2>>
    /\ call.iou = Rat(8, 8)

ViewNames == {detected_persons[k].name : k \in 1..Len(detected_persons)}
FoldedNames == {f.name : f \in folded}

\* C14: the view holds at most one entry per name, the similarity of an entry
\* is the maximum similarity of the tracks of that name folded into the view
\* since the last reset, and a step that is no reset replaces an entry only by
\* a track of strictly higher similarity.
C14_BestSimilarityWins ==
    /\ [](/\ \A i, j \in 1..Len(detected_persons) :
                detected_persons[i].name = detected_persons[j].name => i = j
          /\ ViewNames = FoldedNames
          /\ \A i \in 1..Len(detected_persons) :
                /\ detected_persons[i].data.person_name = detected_persons[i].name
                /\ \E f \in folded :
                      /\ f.name = detected_persons[i].name
                      /\ f.similarity = detected_persons[i].data.similarity
                /\ \A f \in folded :
                      f.name = detected_persons[i].name =>
                          ~RatGT(f.similarity, detected_persons[i].data.similarity))
    /\ [][Len(detected_persons') >= Len(detected_persons) =>
             \A i \in 1..Len(detected_persons) :
                 /\ detected_persons'[i].name = detected_persons[i].name
                 /\ detected_persons'[i].data # detected_persons[i].data =>
                       RatGT(detected_persons'[i].data.similarity,
                             detected_persons[i].data.similarity)
         ]_vars

C14_Witness ==
    \E i \in 1..Len(detected_persons) :
        /\ detected_persons[i].name = "Alice"
        /\ RatEQ(detected_persons[i].data.similarity, Rat(100, 1))
        /\ \E f \in folded :
              /\ f.name = "Alice"
              /\ RatGT(f.similarity, Zero)
              /\ RatGT(detected_persons[i].data.similarity, f.similarity)
        /\ \E k \in 1..Len(Prev) :
              /\ Prev[k].person_name = "Alice"
              /\ RatGT(Prev[k].similarity, Zero)
        /\ \A k \in 1..Len(Prev) : RatGT(Rat(100, 1), Prev[k].similarity)

ReturnedNames ==
    {get_detected_persons(detected_persons)[k].name : k \in 1..Len(detected_persons)}
TrackNames == {tracker.faces[k].person_name : k \in 1..Len(tracker.faces)}

\* C15 as stated: after every processed frame the names get_detected_persons
\* returns are exactly the names of the tracks in the table.
C15_ViewIsSnapshotOfTracks ==
    call.op = "process_frame" => ReturnedNames = TrackNames

\* C15 as amended: after every processed frame the names get_detected_persons
\* returns are exactly the names carried by a track of the table after some
\* frame since the last reset: those of the current tracks are among them, and
\* the name of a dropped track stays until reset_tracker.
C15_ViewAccumulatesSinceReset ==
    call.op = "process_frame" =>
        /\ ReturnedNames = FoldedNames
        /\ TrackNames \subseteq ReturnedNames
        /\ Len(get_detected_persons(detected_persons)) = Cardinality(FoldedNames)

C15_Witness ==
    /\ call.op = "process_frame"
    /\ tracker.faces = <<>>
    /\ Len(Prev) = 1
    /\ ReturnedNames = {Prev[1].person_name}
    /\ Prev[1].person_name = unknown_label(0)

\* C16: right after reset_tracker the track table is empty, the counter is 0
\* and the view is empty, whatever was processed before; from then on the
\* scanner holds what a scanner constructed at that moment and given the same
\* frames holds.
C16_ResetClearsAll ==
    /\ call.op = "reset_tracker" =>
          /\ tracker.faces = <<>>
          /\ tracker.last_id = 0
          /\ detected_persons = <<>>
    /\ tracker = fresh.tracker
    /\ detected_persons = fresh.detected_persons

C16_Witness ==
    /\ call.op = "reset_tracker"
    /\ preTracker.last_id > 1
    /\ preTracker.faces # <<>>
    /\ tracker = NewTracker
    /\ detected_persons = <<>>

\* C17: when delete_person returns True the store holds no row for the name
\* and the image file the row pointed to no longer exists; when the name has
\* no row it returns False and changes nothing.
C17_DeleteRemovesRowAndFile ==
    call.op = "delete_person" =>
        IF call.ret
        THEN /\ HasRow(pre.db, call.name)
             /\ ~HasRow(db, call.name)
             /\ files[pre.db[RowIndex(pre.db, call.name)].image_path] = NoFile
        ELSE /\ ~HasRow(pre.db, call.name)
             /\ db = pre.db
             /\ files = pre.files

CarriedOver(id) == id \in Ids(Prev)

\* C18: an unclaimed unknown detection is merged only into a track created
\* earlier in the same frame, and a track carried over from the previous frame
\* and claimed in this one keeps the box, crop and fingerprint of the
\* detection that claimed it.
C18_MergeOnlyIntoNewTracks ==
    /\ \A i \in 1..Len(frame) :
          frame[i].fate = "merged" => ~CarriedOver(frame[i].track_id)
    /\ \A i \in 1..Len(frame) :
          frame[i].fate = "claimed" =>
              \E t \in 1..Len(tracker.faces) :
                  /\ tracker.faces[t].id = frame[i].track_id
                  /\ tracker.faces[t].bbox = frame[i].bbox
                  /\ tracker.faces[t].face_image = frame[i].face
                  /\ tracker.faces[t].hash = frame[i].hash

\* 'Desconocido #N' for some N the counter has reached.
IsUnknownLabel(name) == \E n \in 0..tracker.last_id : name = unknown_label(n)
IsRegistered(name) == HasRow(db, name)

\* C19: in every track of the table is_unknown is true exactly when
\* person_name is a label 'Desconocido #N', and false exactly when person_name
\* is the name of a registered person, never None.
C19_IdentityFieldsConsistent ==
    \A t \in 1..Len(tracker.faces) :
        /\ tracker.faces[t].is_unknown <=> IsUnknownLabel(tracker.faces[t].person_name)
        /\ ~tracker.faces[t].is_unknown <=> IsRegistered(tracker.faces[t].person_name)

\* C20: a detection whose crop has zero area gets no fingerprint, the frame
\* completes, and a track the detection left in the table is flagged unknown.
C20_ZeroAreaCropNeverKnown ==
    call.op = "process_frame" =>
        \A i \in 1..Len(frame) :
            frame[i].face = NoFile =>
                /\ ~frame[i].has_hash
                /\ frame[i].hash = Unhashed
                /\ \A t \in 1..Len(tracker.faces) :
                      (/\ tracker.faces[t].id = frame[i].track_id
                       /\ tracker.faces[t].face_image = NoFile) =>
                          tracker.faces[t].is_unknown

ClaimedBy(k) ==
    {i \in 1..Len(frame) : frame[i].fate = "claimed" /\ frame[i].track_id = Prev[k].id}

\* C21: the first pass of track_faces is a greedy one-to-one matching in the
\* order of the track table: every track claims at most one detection, the
\* one of highest IoU above the threshold among those no earlier track
\* claimed (the lowest index on ties), it claims one whenever such a detection
\* exists, it is carried over exactly when it claimed one, and every claimed
\* detection is claimed by one track of the previous table.
C21_GreedyOneToOneAssociation ==
    call.op = "process_frame" =>
        /\ \A k \in 1..Len(Prev) :
              /\ Cardinality(ClaimedBy(k)) <= 1
              /\ \A i \in ClaimedBy(k) : IsBest(k, i)
              /\ (\E i \in 1..Len(frame) : Overlaps(k, i)) => ClaimedBy(k) # {}
              /\ Prev[k].id \in Ids(tracker.faces) <=> ClaimedBy(k) # {}
        /\ \A i \in 1..Len(frame) :
              frame[i].fate = "claimed" =>
                  Cardinality({k \in 1..Len(Prev) : Prev[k].id = frame[i].track_id}) = 1

\* Two tracks overlap the one detection of the frame, the second more than
\* the first: the first claims it and the second is dropped.
C21_Witness ==
    /\ call.op = "process_frame"
    /\ Len(Prev) = 2
    /\ Len(frame) = 1
    /\ Overlaps(1, 1)
    /\ RatGT(IoU(2, 1), IoU(1, 1))
    /\ ClaimedBy(1) = {1}
    /\ ClaimedBy(2) = {}
    /\ Ids(tracker.faces) = {Prev[1].id}

\* The image file of row i exists and holds the image the row was stored with.
OwnImageInPlace(i) ==
    /\ files[db[i].image_path] # NoFile
    /\ compute_hash(files[db[i].image_path], hash_size) = db[i].hash_normal
    /\ compute_hash(flip(files[db[i].image_path]), hash_size) = db[i].hash_flipped

\* C22: after any sequence of register_person, update_person_image and
\* delete_person calls no two rows name the same image file, and the file of
\* every row exists and holds the image of that row.
C22_NoSharedReferenceImage ==
    \A i \in 1..Len(db) :
        /\ OwnImageInPlace(i)
        /\ \A j \in 1..Len(db) : j # i => db[j].image_path # db[i].image_path

\* The tracks lost in a frame before the last one, and the detections of the
\* last frame that show such a track again: same box, same fingerprint.
LostEarlier == {l \in lost : l.id \notin Ids(Prev)}
ShowsAgain(i, l) == frame[i].bbox = l.bbox /\ frame[i].hash = l.hash
FreshTrack(i) ==
    /\ frame[i].fate = "created"
    /\ frame[i].track_id >= preTracker.last_id
    /\ frame[i].track_id \notin Ids(Prev)

\* C23 as stated: a detection with the box and the fingerprint of a track
\* lost in an earlier frame starts a new track under a fresh identifier.
C23_LostTrackReturnsAsNewTrack ==
    call.op = "process_frame" =>
        \A l \in LostEarlier, i \in 1..Len(frame) :
            ShowsAgain(i, l) => FreshTrack(i) /\ frame[i].track_id # l.id

\* C23 as amended: such a detection never goes to the identifier of the lost
\* track, and no track of the table carries that identifier or, for an
\* unknown track, its label; the detection starts a new track under a fresh
\* identifier (with a new Unknown label when it is unknown) unless a track of
\* the table claims it or, being unknown, it is merged into a similar
\* unknown track.
C23_LostTrackNeverReidentified ==
    call.op = "process_frame" =>
        /\ \A l \in lost, j \in 1..Len(tracker.faces) :
              /\ tracker.faces[j].id # l.id
              /\ IsUnknownLabel(l.person_name) =>
                    tracker.faces[j].person_name # l.person_name
        /\ \A l \in LostEarlier, i \in 1..Len(frame) :
              ShowsAgain(i, l) =>
                  /\ frame[i].track_id # l.id
                  /\ \/ FreshTrack(i)
                     \/ frame[i].fate = "claimed" /\ frame[i].track_id \in Ids(Prev)
                     \/ frame[i].fate = "merged" /\ frame[i].is_unknown
                  /\ (FreshTrack(i) /\ frame[i].is_unknown) =>
                        \E j \in 1..Len(tracker.faces) :
                            /\ tracker.faces[j].id = frame[i].track_id
                            /\ tracker.faces[j].person_name
                                   = unknown_label(frame[i].track_id)
                            /\ tracker.faces[j].person_name # l.person_name

\* An unknown track was lost and a later frame shows its box and fingerprint:
\* the detection starts a track under a new identifier and a new label.
C23_Witness ==
    /\ call.op = "process_frame"
    /\ \E l \in LostEarlier, i \in 1..Len(frame), j \in 1..Len(tracker.faces) :
          /\ IsUnknownLabel(l.person_name)
          /\ ShowsAgain(i, l)
          /\ FreshTrack(i)
          /\ frame[i].is_unknown
          /\ tracker.faces[j].id = frame[i].track_id
          /\ tracker.faces[j].id > l.id
          /\ tracker.faces[j].person_name = unknown_label(frame[i].track_id)
          /\ tracker.faces[j].person_name # l.person_name

\* The variants of the detection match_faces was called with that hold a
\* fingerprint, and what find_match returns for each.
Available == {k \in 1..4 : Len(hash_variants(call.det)[k]) > 0}
VariantResult(k) == find_match(db, hash_variants(call.det)[k], call.threshold)
Scores(k) == Truthy(VariantResult(k).name) /\ RatGT(VariantResult(k).sim, Zero)
\* Variant k scores above zero and no variant scores higher; of several such
\* it is the first.
Winner(k) ==
    /\ k \in Available
    /\ Scores(k)
    /\ \A k2 \in Available :
          Scores(k2) =>
              /\ ~RatGT(VariantResult(k2).sim, VariantResult(k).sim)
              /\ RatEQ(VariantResult(k2).sim, VariantResult(k).sim) => k <= k2

\* C24: a call of match_faces that completes assigns to the detection the
\* name, similarity and image path of the variant of highest similarity, and
\* marks a detection no variant of which scores above zero as unknown:
\* person_name None, similarity 0, is_unknown true.
C24_BestVariantWins ==
    (call.op = "match_faces" /\ call.status = "ok") =>
        /\ \A k \in Available :
              Winner(k) =>
                  /\ call.dets[1].person_name = VariantResult(k).name
                  /\ call.dets[1].similarity = VariantResult(k).sim
                  /\ call.dets[1].db_image_path = VariantResult(k).path
                  /\ ~call.dets[1].is_unknown
        /\ (\A k \in Available : ~Scores(k)) =>
              /\ call.dets[1].person_name = None
              /\ call.dets[1].similarity = Zero
              /\ call.dets[1].is_unknown

\* C25: the record find_match returns is the closest of the store: no record
\* is nearer to the query by the smaller of its two distances, and every
\* record scanned before it is farther.
C25_ReturnsGloballyClosest ==
    (call.op = "find_match" /\ Done /\ call.res.name # None) =>
        \E k \in 1..Len(db) :
            /\ db[k].name = call.res.name
            /\ db[k].image_path = call.res.path
            /\ \A j \in 1..Len(db) :
                  BitsApart(call.face_hash, db[j]) >= BitsApart(call.face_hash, db[k])
            /\ \A j \in 1..(k - 1) :
                  BitsApart(call.face_hash, db[j]) > BitsApart(call.face_hash, db[k])

\* Two records within the threshold, the second closer: it is the one returned.
C25_Witness ==
    /\ call.op = "find_match"
    /\ Done
    /\ Len(db) = 2
    /\ BitsApart(call.face_hash, db[1]) <= call.threshold
    /\ BitsApart(call.face_hash, db[2]) < BitsApart(call.face_hash, db[1])
    /\ call.res.name = db[2].name

\* Track k of the previous table is unknown, carries an Unknown label and is
\* claimed by detection i of the frame, which is unknown again.
UnknownStaysAssociated(k, i) ==
    /\ Prev[k].is_unknown
    /\ IsUnknownLabel(Prev[k].person_name)
    /\ i \in ClaimedBy(k)
    /\ frame[i].is_unknown

\* C26: an unknown track claimed by a detection that is unknown again is in
\* the table after the frame under the same identifier and the same label,
\* with the box, the crop and the fingerprint of that detection.
C26_AssociatedUnknownKeepsLabel ==
    call.op = "process_frame" =>
        \A k \in 1..Len(Prev), i \in 1..Len(frame) :
            UnknownStaysAssociated(k, i) =>
                \E j \in 1..Len(tracker.faces) :
                    /\ tracker.faces[j].id = Prev[k].id
                    /\ tracker.faces[j].person_name = Prev[k].person_name
                    /\ tracker.faces[j].bbox = frame[i].bbox
                    /\ tracker.faces[j].face_image = frame[i].face
                    /\ tracker.faces[j].hash = frame[i].hash

\* The stored fingerprints, and whether the query has the length of none.
StoredFingerprints == UNION {{db[k].hash_normal, db[k].hash_flipped} : k \in 1..Len(db)}
NoEqualLength(face_hash) == \A h \in StoredFingerprints : Len(h) # Len(face_hash)

\* C27: the distance of the query to a stored fingerprint of another length
\* is infinite, for both Hamming distances, and find_match completes and
\* returns no record for a query that has the length of no stored
\* fingerprint, whatever the threshold.
C27_UnequalLengthNeverMatches ==
    (call.op = "find_match" /\ Done) =>
        /\ \A h \in StoredFingerprints :
              Len(h) # Len(call.face_hash) =>
                  /\ db_hamming_distance(call.face_hash, h) = Inf
                  /\ db_hamming_distance(h, call.face_hash) = Inf
                  /\ hamming_distance(call.face_hash, h) = Inf
        /\ NoEqualLength(call.face_hash) =>
              /\ call.status = "ok"
              /\ call.res = NoMatch

\* A query one digit long, equal to the start of a stored fingerprint of two
\* digits, against a store of two records: nothing is returned.
C27_Witness ==
    /\ call.op = "find_match"
    /\ Done
    /\ Len(db) = 2
    /\ Len(call.face_hash) = 1
    /\ NoEqualLength(call.face_hash)
    /\ \E h \in StoredFingerprints : SubSeq(h, 1, 1) = call.face_hash
    /\ call.threshold = 10
    /\ call.res.name = None

\* The distance of the query to the closest record of the store, and the
\* similarity find_match computes for a closest record at distance d.
ClosestDistance ==
    CHOOSE d \in {BitsApart(call.face_hash, db[k]) : k \in 1..Len(db)} :
        \A k \in 1..Len(db) : d <= BitsApart(call.face_hash, db[k])
SimilarityAt(d) ==
    match_result([match |-> "Alice", similarity |-> d, image_path |-> None],
                 call.threshold).sim

\* C28: for a threshold above 0 the similarity find_match returns with a
\* record at distance d is max(0, 100 * (1 - d / threshold)): 100 at distance
\* 0, 0 at the threshold, between 0 and 100, and not higher at a greater
\* distance.
C28_SimilarityIsMonotoneTransform ==
    (call.op = "find_match" /\ Done /\ call.threshold > 0) =>
        /\ call.status = "ok"
        /\ call.res.name # None =>
              /\ RatEQ(call.res.sim,
                       Rat(Max(0, 100 * (call.threshold - ClosestDistance)), call.threshold))
              /\ ClosestDistance = 0 => RatEQ(call.res.sim, Rat(100, 1))
              /\ ClosestDistance = call.threshold => RatEQ(call.res.sim, Zero)
              /\ ~RatGT(Zero, call.res.sim)
              /\ ~RatGT(call.res.sim, Rat(100, 1))
        /\ \A d \in 0..(call.threshold - 1) : ~RatGT(SimilarityAt(d + 1), SimilarityAt(d))

\* A record at the threshold exactly is returned with similarity 0, one
\* strictly inside with a similarity strictly between 0 and 100.
C28_Witness ==
    /\ call.op = "find_match"
    /\ Done
    /\ call.threshold = 10
    /\ call.res.name # None
    /\ ClosestDistance = 3
    /\ RatEQ(call.res.sim, Rat(70, 1))

WindowNames == {window.detected_persons[k].name : k \in 1..Len(window.detected_persons)}

\* C29: after every frame the window handled, the names in the window's
\* detected_persons are the names in the scanner's view.
C29_WindowInStepWithScanner ==
    call.op = "process_frame" => WindowNames = ViewNames

\* The boxes of the last call whose first failing filter is the one counted
\* under the name c; "valid_detections" for those that pass all four.
FirstFailing(c) == {i \in 1..Len(call.boxes) : filter_box(call.boxes[i]) = c}
Passes(box) ==
    /\ box.conf >= MinConfidence
    /\ box.width >= MinFaceSize /\ box.height >= MinFaceSize
    /\ 2 * box.width <= 5 * box.height /\ 2 * box.height <= 5 * box.width
    /\ has_skin_tone(box)
StatCounters ==
    {"filtered_confidence", "filtered_size", "filtered_aspect", "filtered_skin",
     "valid_detections"}

\* C30: after any sequence of detect_objects and reset_stats calls
\* total_detections is the sum of the four filter counters and
\* valid_detections; detect_objects completes, keeps exactly the boxes that
\* pass the confidence, size, aspect-ratio and skin-tone filters, and counts
\* every raw box once, under the first filter it fails or as valid;
\* reset_stats sets every counter to 0.
C30_StatsAccountForEveryDetection ==
    /\ stats.total_detections
          = stats.filtered_confidence + stats.filtered_size + stats.filtered_aspect
            + stats.filtered_skin + stats.valid_detections
    /\ call.op = "detect_objects" =>
          /\ call.status = "ok"
          /\ stats.total_detections = call.stats.total_detections + Len(call.boxes)
          /\ \A c \in StatCounters :
                stats[c] = call.stats[c] + Cardinality(FirstFailing(c))
          /\ Range(call.valid_indices) = {i \in 1..Len(call.boxes) : Passes(call.boxes[i])}
          /\ \A a, b \in 1..Len(call.valid_indices) :
                a < b => call.valid_indices[a] < call.valid_indices[b]
          /\ \A i \in 1..Len(call.boxes) :
                call.boxes[i].conf < MinConfidence => i \in FirstFailing("filtered_confidence")
          /\ \A i \in 1..Len(call.boxes) :
                (/\ call.boxes[i].conf >= MinConfidence
                 /\ (call.boxes[i].width < MinFaceSize \/ call.boxes[i].height < MinFaceSize))
                    => i \in FirstFailing("filtered_size")
    /\ call.op = "reset_stats" => stats = NewStats

\* Statistics that were not empty, then a call on a box that fails the
\* confidence and the size filter followed by a box that passes all four.
C30_Witness ==
    /\ call.op = "detect_objects"
    /\ call.stats.filtered_skin > 0
    /\ Len(call.boxes) = 2
    /\ call.boxes[1].conf < MinConfidence
    /\ call.boxes[1].width < MinFaceSize
    /\ Passes(call.boxes[2])
    /\ call.valid_indices = <<2>>
    /\ stats.filtered_confidence = call.stats.filtered_confidence + 1
    /\ stats.filtered_size = call.stats.filtered_size
    /\ stats.valid_detections = call.stats.valid_detections + 1

====
